---- MODULE Spec2Model ----
(***************************************************************************)
(* Model of the lspower transport loop (src/src/transport.rs, Server::serve)*)
(* driving the request router generated by lspower-macros                  *)
(* (src/lspower-macros/src/lib.rs, handle_request).                         *)
(*                                                                         *)
(* The reader task reads frames, calls the service and pushes the returned *)
(* future into a bounded channel.  The printer task pulls futures from the *)
(* channel through `buffered`, awaits them in order, and forwards their    *)
(* outputs, merged with the interleave stream by `select`, to stdout.      *)
(***************************************************************************)
EXTENDS Integers, Sequences, FiniteSets, TLC

\* ------------------------------------------------------------------ bounds

\* Number of frames the client sends at most.
MaxFrames == 3
\* Request ids are 1..MaxId; 0 stands for "no id" / the null id.
MaxId == 2
\* Number of messages the interleave stream yields at most.
MaxInterleave == 1
\* mpsc::channel(16): the buffer of the channel, scaled down.
ChannelBuffer == 1
\* receiver.buffered(4): the number of futures awaited concurrently, scaled down.
BufferedMax == 2
\* Number of messages of the interleave stream when the merge is examined.
MergeInterleave == 2
\* Number of frames the client sends at most when the backpressure of the
\* channel is examined.
BackpressureFrames == 5

\* ------------------------------------------------------------ JSON-RPC types

ParseError == -32700
InvalidRequest == -32600
InvalidParams == -32602
InternalError == -32603
ServerNotInitialized == -32002
RequestCancelled == -32800

Ids == 1 .. MaxId

StateKind == {"Uninitialized", "Initializing", "Initialized", "ShutDown", "Exited"}

\* The value of a future: not yet resolved, resolved to None, or resolved to
\* Some(Outgoing::Response).  code 0 is a response carrying a result.
Unresolved == [tag |-> "unresolved", id |-> 0, code |-> 0]
NoOutput == [tag |-> "none", id |-> 0, code |-> 0]
Response(id, code) == [tag |-> "resp", id |-> id, code |-> code]

\* What a handler may return: Ok(result) or Err(error).
HandlerResults == {0, InternalError}

\* ----------------------------------------------------------------- frames

\* The decoded requests: the method, the id (0 when the message has none; for
\* $/cancelRequest the id of the request to cancel) and whether the params
\* deserialized (Params::Valid) or not (Params::Invalid).
Frames ==
    [method : {"initialize", "request"}, id : Ids, valid : BOOLEAN]
        \cup [method : {"shutdown", "$/cancelRequest"}, id : Ids, valid : {TRUE}]
        \cup [method : {"notification"}, id : {0}, valid : BOOLEAN]
        \cup [method : {"exit"}, id : {0}, valid : {TRUE}]
        \cup [method : {"other"}, id : Ids \cup {0}, valid : {TRUE}]

\* Variant of MethodId that also yields the id of a $/cancelRequest.
MethodIdOfAny(f) == f.id

\* ServerMethod::id: Some(id) for the methods that have a result.
MethodId(f) ==
    IF f.method \in {"initialize", "shutdown", "request"} THEN f.id ELSE 0

VARIABLES
    state,        \* the lifecycle cell (State)
    pending,      \* the pending registry: id -> the future registered, 0 if none
    queue,        \* the futures sent and not yet forwarded, oldest first
    win,          \* how many of them `buffered` holds in progress (a prefix of queue)
    parked,       \* the sender is parked: the channel is over its buffer
    nread,        \* frames read so far
    readerDone,   \* the reader task has returned
    printerDone,  \* the printer task has returned
    sinkFailed,   \* the printer returned because a write to stdout failed
    panicked,     \* the reader panicked in the unwrap of a failed send
    exitDispatched, \* history: an exit notification has been dispatched
    ilvReady,     \* items the interleave stream has ready
    ilvSent,      \* items the interleave stream has produced so far
    ilvClosed,    \* the interleave stream has ended
    sinkBuf,      \* the messages the sink has taken and not yet written
    stdout        \* the messages written, oldest first

vars ==
    << state, pending, queue, win, parked, nread, readerDone, printerDone,
       sinkFailed, panicked, exitDispatched, ilvReady, ilvSent, ilvClosed,
       sinkBuf, stdout >>

readerVars == << nread, readerDone, panicked, exitDispatched >>
ilvVars == << ilvReady, ilvSent, ilvClosed >>

Init ==
    /\ state = "Uninitialized"
    /\ pending = [i \in Ids |-> 0]
    /\ queue = << >>
    /\ win = 0
    /\ parked = FALSE
    /\ nread = 0
    /\ readerDone = FALSE
    /\ printerDone = FALSE
    /\ sinkFailed = FALSE
    /\ panicked = FALSE
    /\ exitDispatched = FALSE
    /\ ilvReady = 0
    /\ ilvSent = 0
    /\ ilvClosed = FALSE
    /\ sinkBuf = << >>
    /\ stdout = << >>


\* ------------------------------------------------------- pending registry

\* The futures of q whose fid is in fids are aborted (AbortHandle::abort); a
\* future that has already resolved is not affected.
Abort(q, fids) ==
    [i \in DOMAIN q |->
        IF q[i].fid \in fids /\ q[i].out = Unresolved
        THEN [q[i] EXCEPT !.aborted = TRUE]
        ELSE q[i]]

\* History: the futures of q that are unresolved when an exit is dispatched
\* are marked.
MarkAtExit(q, arm) ==
    [i \in DOMAIN q |->
        IF arm = "exit" /\ q[i].out = Unresolved
        THEN [q[i] EXCEPT !.atExit = TRUE]
        ELSE q[i]]

\* pending.execute(id, fut): registers id for the new future; a future that was
\* registered under the same id is cancelled and the new registration wins.
ExecuteRegistry(p, id, fid) == [p EXCEPT ![id] = fid]
ExecuteAborts(p, id) == {p[id]} \ {0}

\* pending.cancel(id): cancels the future registered under id, if any, and
\* destroys the entry.
CancelRegistry(p, id) == [p EXCEPT ![id] = 0]
CancelAborts(p, id) == {p[id]} \ {0}

\* pending.cancel_all(): cancels every entry.
CancelAllRegistry(p) == [i \in Ids |-> 0]
CancelAllAborts(p) == {p[i] : i \in Ids} \ {0}

\* The future returned by execute removes its id when it completes.
CompleteRegistry(p, id, fid) == IF p[id] = fid THEN [p EXCEPT ![id] = 0] ELSE p

\* ----------------------------------------------------------------- router

\* Variant of Arm without the (other, Uninitialized) arm: the requests it
\* covers fall through to the last arm.
ArmNoUninitialized(f, st) ==
    IF f.method = "other" THEN (IF f.id # 0 THEN "requestElse" ELSE "ignore")
    ELSE IF f.method = "initialize" /\ st = "Uninitialized"
        THEN (IF f.valid THEN "initialize" ELSE "invalidParams")
    ELSE IF f.method = "initialize" /\ st = "Initializing" THEN "duplicateInitialize"
    ELSE IF f.method = "shutdown" /\ st = "Initialized" THEN "shutdown"
    ELSE IF f.method = "request" /\ st = "Initialized"
        THEN (IF f.valid THEN "execute" ELSE "invalidParams")
    ELSE IF f.method = "notification" /\ st = "Initialized"
        THEN (IF f.valid THEN "notify" ELSE "ignore")
    ELSE IF f.method = "$/cancelRequest" /\ st = "Initialized" THEN "cancel"
    ELSE IF f.method = "exit" THEN "exit"
    ELSE "invalidRequest"

\* Variant of Arm in which the (other, Uninitialized) arm also takes the
\* requests dispatched in Initializing.
ArmInitializingAsUninitialized(f, st) ==
    IF f.method = "other" THEN (IF f.id # 0 THEN "requestElse" ELSE "ignore")
    ELSE IF f.method = "initialize" /\ st = "Uninitialized"
        THEN (IF f.valid THEN "initialize" ELSE "invalidParams")
    ELSE IF f.method = "initialize" /\ st = "Initializing" THEN "duplicateInitialize"
    ELSE IF f.method = "shutdown" /\ st = "Initialized" THEN "shutdown"
    ELSE IF f.method = "request" /\ st = "Initialized"
        THEN (IF f.valid THEN "execute" ELSE "invalidParams")
    ELSE IF f.method = "notification" /\ st = "Initialized"
        THEN (IF f.valid THEN "notify" ELSE "ignore")
    ELSE IF f.method = "$/cancelRequest" /\ st = "Initialized" THEN "cancel"
    ELSE IF f.method = "exit" THEN "exit"
    ELSE IF st \in {"Uninitialized", "Initializing"} THEN "notInitialized"
    ELSE "invalidRequest"

\* Variant of Arm in which the lifecycle state is matched before the unknown
\* methods: once the server has exited they fall to the last arm.
ArmStateFirst(f, st) ==
    IF f.method = "other" /\ st # "Exited"
        THEN (IF f.id # 0 THEN "requestElse" ELSE "ignore")
    ELSE IF f.method = "initialize" /\ st = "Uninitialized"
        THEN (IF f.valid THEN "initialize" ELSE "invalidParams")
    ELSE IF f.method = "initialize" /\ st = "Initializing" THEN "duplicateInitialize"
    ELSE IF f.method = "shutdown" /\ st = "Initialized" THEN "shutdown"
    ELSE IF f.method = "request" /\ st = "Initialized"
        THEN (IF f.valid THEN "execute" ELSE "invalidParams")
    ELSE IF f.method = "notification" /\ st = "Initialized"
        THEN (IF f.valid THEN "notify" ELSE "ignore")
    ELSE IF f.method = "$/cancelRequest" /\ st = "Initialized" THEN "cancel"
    ELSE IF f.method = "exit" THEN "exit"
    ELSE IF st = "Uninitialized" THEN "notInitialized"
    ELSE "invalidRequest"

\* The arm of handle_request that a request takes in lifecycle state st.
Arm(f, st) ==
    IF f.method = "other" THEN (IF f.id # 0 THEN "requestElse" ELSE "ignore")
    ELSE IF f.method = "initialize" /\ st = "Uninitialized"
        THEN (IF f.valid THEN "initialize" ELSE "invalidParams")
    ELSE IF f.method = "initialize" /\ st = "Initializing" THEN "duplicateInitialize"
    ELSE IF f.method = "shutdown" /\ st = "Initialized" THEN "shutdown"
    ELSE IF f.method = "request" /\ st = "Initialized"
        THEN (IF f.valid THEN "execute" ELSE "invalidParams")
    ELSE IF f.method = "notification" /\ st = "Initialized"
        THEN (IF f.valid THEN "notify" ELSE "ignore")
    ELSE IF f.method = "$/cancelRequest" /\ st = "Initialized" THEN "cancel"
    ELSE IF f.method = "exit" THEN "exit"
    ELSE IF st = "Uninitialized" THEN "notInitialized"
    ELSE "invalidRequest"

\* Variant of RouteState in which the exit arm leaves the state alone.
RouteStateNoExit(arm, st) ==
    CASE arm = "initialize" -> "Initializing"
      [] arm = "shutdown" -> "ShutDown"
      [] OTHER -> st

\* Variant of RouteState in which the initialize arm sets Initialized at once,
\* without waiting for the handler.
RouteStateEager(arm, st) ==
    CASE arm = "initialize" -> "Initialized"
      [] arm = "shutdown" -> "ShutDown"
      [] arm = "exit" -> "Exited"
      [] OTHER -> st

\* Variant of RouteState in which the shutdown arm leaves the state alone.
RouteStateNoShutdown(arm, st) ==
    CASE arm = "initialize" -> "Initializing"
      [] arm = "exit" -> "Exited"
      [] OTHER -> st

\* The lifecycle state that handle_request leaves behind when it returns.
RouteState(arm, st) ==
    CASE arm = "initialize" -> "Initializing"
      [] arm = "shutdown" -> "ShutDown"
      [] arm = "exit" -> "Exited"
      [] OTHER -> st

\* The pending registry that handle_request leaves behind.
RoutePending(arm, f, fid, p) ==
    CASE arm \in {"requestElse", "shutdown", "execute"} -> ExecuteRegistry(p, f.id, fid)
      [] arm = "cancel" -> CancelRegistry(p, f.id)
      [] arm = "exit" -> CancelAllRegistry(p)
      [] OTHER -> p

\* Variant of RouteAborts in which the $/cancelRequest arm cancels nothing.
RouteAbortsNoCancel(arm, f, p) ==
    CASE arm \in {"requestElse", "shutdown", "execute"} -> ExecuteAborts(p, f.id)
      [] arm = "exit" -> CancelAllAborts(p)
      [] OTHER -> {}

\* Variant of RouteAborts in which the exit arm cancels nothing.
RouteAbortsNoCancelAll(arm, f, p) ==
    CASE arm \in {"requestElse", "shutdown", "execute"} -> ExecuteAborts(p, f.id)
      [] arm = "cancel" -> CancelAborts(p, f.id)
      [] OTHER -> {}

\* The futures that handle_request aborts.
RouteAborts(arm, f, p) ==
    CASE arm \in {"requestElse", "shutdown", "execute"} -> ExecuteAborts(p, f.id)
      [] arm = "cancel" -> CancelAborts(p, f.id)
      [] arm = "exit" -> CancelAllAborts(p)
      [] OTHER -> {}

\* The response of the two catch-all arms: an error with the id of the
\* request, nothing for a notification.
Rejected(f, code) ==
    IF MethodId(f) = 0 THEN NoOutput ELSE Response(MethodId(f), code)

\* The future that handle_request returns: what it runs when polled ("init":
\* the initialize handler and the state change after it; "exec": a handler
\* under the pending registry; "notify": a notification handler; "ready": a
\* value that is ready) and its value so far.  fid numbers the frame the
\* future was made for; atExit and overtook are history (see MarkAtExit and
\* PollFuture).
RouteFuture(arm, f, fid) ==
    [fid |-> fid, method |-> f.method, id |-> f.id, valid |-> f.valid,
     aborted |-> FALSE, atExit |-> FALSE, overtook |-> {},
     kind |-> CASE arm = "initialize" -> "init"
                [] arm \in {"requestElse", "shutdown", "execute"} -> "exec"
                [] arm = "notify" -> "notify"
                [] OTHER -> "ready",
     out |-> CASE arm \in {"initialize", "requestElse", "shutdown", "execute", "notify"}
                    -> Unresolved
               [] arm = "invalidParams" -> Response(f.id, InvalidParams)
               [] arm = "duplicateInitialize" -> Response(f.id, InvalidRequest)
               [] arm = "notInitialized" -> Rejected(f, ServerNotInitialized)
               [] arm = "invalidRequest" -> Rejected(f, InvalidRequest)
               [] OTHER -> NoOutput]

\* service.poll_ready: an error once the server has exited.
PollReady(st) == st # "Exited"


\* ----------------------------------------------------------- reader task

\* The futures waiting in the channel are those of queue after the first win.
ChannelLen(q, w) == Len(q) - w

\* sender.send(fut).await.unwrap() on the queue q. While the printer holds the
\* receiver the future is pushed; the sender is parked, and the reader
\* suspended in the flush, while the channel holds more than its buffer. Once
\* the printer has returned the receiver is dropped: the send fails with
\* Disconnected, the future is dropped and the unwrap panics the reader.
Send(q, fut) ==
    IF printerDone
    THEN /\ queue' = q
         /\ parked' = FALSE
         /\ readerDone' = TRUE
         /\ panicked' = TRUE
    ELSE /\ queue' = Append(q, fut)
         /\ parked' = (ChannelLen(q, win) + 1 > ChannelBuffer)
         /\ UNCHANGED << readerDone, panicked >>

\* The reader is at framed_stdin.next() and the client has a frame for it; the
\* client sends at most n frames.
Reading(n) == ~readerDone /\ ~parked /\ nread < n

CanRead == Reading(MaxFrames)

\* A frame that fails to decode: a ready parse-error response is sent.
ReaderDecodeError ==
    /\ CanRead
    /\ nread' = nread + 1
    /\ Send(queue,
            [fid |-> nread + 1, method |-> "", id |-> 0, valid |-> FALSE,
             aborted |-> FALSE, atExit |-> FALSE, overtook |-> {},
             kind |-> "ready", out |-> Response(0, ParseError)])
    /\ UNCHANGED << state, pending, win, printerDone, sinkFailed, exitDispatched,
                    ilvVars, sinkBuf, stdout >>

\* Variant of ReaderPollReadyErrorUpTo in which the reader skips the frame and
\* goes on reading.
ReaderPollReadyErrorSkips(n) ==
    /\ Reading(n)
    /\ ~PollReady(state)
    /\ nread' = nread + 1
    /\ UNCHANGED << state, pending, queue, win, parked, readerDone, panicked,
                    exitDispatched, printerDone, sinkFailed, ilvVars, sinkBuf, stdout >>

\* A frame is decoded but poll_ready fails: the reader returns.
ReaderPollReadyErrorUpTo(n) ==
    /\ Reading(n)
    /\ ~PollReady(state)
    /\ nread' = nread + 1
    /\ readerDone' = TRUE
    /\ UNCHANGED << state, pending, queue, win, parked, panicked, exitDispatched,
                    printerDone, sinkFailed, ilvVars, sinkBuf, stdout >>

ReaderPollReadyError == ReaderPollReadyErrorUpTo(MaxFrames)

\* A frame is decoded, the service is ready: service.call(request) runs
\* handle_request and the future it returns is sent.
ReaderCallUpTo(f, n) ==
    /\ Reading(n)
    /\ PollReady(state)
    /\ LET arm == Arm(f, state)
           fid == nread + 1
       IN  /\ nread' = fid
           /\ state' = RouteState(arm, state)
           /\ pending' = RoutePending(arm, f, fid, pending)
           /\ exitDispatched' = (exitDispatched \/ arm = "exit")
           /\ Send(MarkAtExit(Abort(queue, RouteAborts(arm, f, pending)), arm),
                   RouteFuture(arm, f, fid))
    /\ UNCHANGED << win, printerDone, sinkFailed, ilvVars, sinkBuf, stdout >>

ReaderCall(f) == ReaderCallUpTo(f, MaxFrames)

\* framed_stdin.next() yields None: the reader returns.
ReaderEof ==
    /\ ~readerDone
    /\ ~parked
    /\ readerDone' = TRUE
    /\ UNCHANGED << state, pending, queue, win, parked, nread, panicked,
                    exitDispatched, printerDone, sinkFailed, ilvVars, sinkBuf, stdout >>

\* ---------------------------------------------------------- printer task

\* Buffered has pulled every future it can: it holds BufferedMax futures or the
\* channel is empty.
WindowFilled == win = BufferedMax \/ win = Len(queue)

FilledWin(q) == IF Len(q) < BufferedMax THEN Len(q) ELSE BufferedMax

\* Buffered::poll_next pulls futures from the channel while it holds fewer than
\* BufferedMax; the receiver unparks the sender.
BufferedFill ==
    /\ ~printerDone
    /\ ~WindowFilled
    /\ win' = FilledWin(queue)
    /\ parked' = FALSE
    /\ UNCHANGED << state, pending, queue, readerVars, printerDone, sinkFailed, ilvVars, sinkBuf, stdout >>

\* The value an "exec" future resolves to: the cancellation if it was aborted,
\* otherwise the handler's result r.
ExecuteOutput(fut, r) ==
    IF fut.aborted THEN Response(fut.id, RequestCancelled) ELSE Response(fut.id, r)

\* Variant of InitializeState that does not set the state back after an Err.
InitializeStateStuck(r) == IF r = 0 THEN "Initialized" ELSE "Initializing"

\* The lifecycle state set by the initialize future when its handler returns r.
InitializeState(r) == IF r = 0 THEN "Initialized" ELSE "Uninitialized"

\* A future in progress is polled and resolves; its handler returns r.
\* History: overtook records the futures sent earlier that are still
\* unresolved at that moment.
PollFuture(i, r) ==
    /\ ~printerDone
    /\ WindowFilled
    /\ i \in 1 .. win
    /\ queue[i].out = Unresolved
    /\ LET fut == queue[i]
           earlier == {queue[j].fid : j \in {k \in 1 .. i - 1 : queue[k].out = Unresolved}}
       IN  CASE fut.kind = "init" ->
                  /\ state' = InitializeState(r)
                  /\ queue' = [queue EXCEPT ![i].out = Response(fut.id, r),
                                            ![i].overtook = earlier]
                  /\ UNCHANGED pending
             [] fut.kind = "exec" ->
                  /\ queue' = [queue EXCEPT ![i].out = ExecuteOutput(fut, r),
                                            ![i].overtook = earlier]
                  /\ pending' = CompleteRegistry(pending, fut.id, fut.fid)
                  /\ UNCHANGED state
             [] OTHER ->
                  /\ queue' = [queue EXCEPT ![i].out = NoOutput]
                  /\ UNCHANGED << state, pending >>
    /\ UNCHANGED << win, parked, readerVars, printerDone, sinkFailed, ilvVars, sinkBuf, stdout >>

\* The message written for a future; src tells where it comes from (the kind
\* of the future, or "interleave").
Written(fut) ==
    [src |-> fut.kind, fid |-> fut.fid, id |-> fut.out.id, code |-> fut.out.code]

\* Without(q, k) is q without its k-th element.
Without(q, k) == [i \in 1 .. Len(q) - 1 |-> IF i < k THEN q[i] ELSE q[i + 1]]

\* Variant of NextOutput that yields outputs as they complete (as
\* buffer_unordered does): the youngest resolved future in progress.
NextOutputUnordered(q, w) ==
    IF \E i \in 1 .. w : q[i].out # Unresolved
    THEN CHOOSE i \in 1 .. w :
            /\ q[i].out # Unresolved
            /\ \A j \in 1 .. w : q[j].out # Unresolved => j <= i
    ELSE 0

\* Variant of NextOutput that yields the oldest future in progress that has
\* resolved, passing over the unresolved ones before it.
NextOutputOldestResolved(q, w) ==
    IF \E i \in 1 .. w : q[i].out # Unresolved
    THEN CHOOSE i \in 1 .. w :
            /\ q[i].out # Unresolved
            /\ \A j \in 1 .. w : q[j].out # Unresolved => i <= j
    ELSE 0

\* The future whose output `buffered` yields next, among the first w of q:
\* the oldest one (FuturesOrdered), once it has resolved; 0 while it has not.
NextOutput(q, w) == IF w > 0 /\ q[1].out # Unresolved THEN 1 ELSE 0

\* filter_map(future::ready) keeps the outputs that are Some(message).
IsSome(out) == out # NoOutput

\* The responses stream has an output for select.
ResponseReady == WindowFilled /\ NextOutput(queue, win) # 0

\* stream::select(responses, interleave) yields an item of either stream that
\* has one; when both have one, either may come first (select gives neither
\* stream priority).

\* The next output of `buffered` is Some(message): forward takes it from the
\* stream and hands it to the sink (start_send encodes it into the sink's
\* buffer); it is written when the sink flushes.
ForwardResponse ==
    /\ ~printerDone
    /\ ResponseReady
    /\ IsSome(queue[NextOutput(queue, win)].out)
    /\ sinkBuf' = Append(sinkBuf, Written(queue[NextOutput(queue, win)]))
    /\ queue' = Without(queue, NextOutput(queue, win))
    /\ win' = win - 1
    /\ UNCHANGED << state, pending, parked, readerVars, printerDone, sinkFailed,
                    ilvVars, stdout >>

\* The next output of `buffered` is None: filter_map drops it.
DropNone ==
    /\ ~printerDone
    /\ ResponseReady
    /\ ~IsSome(queue[NextOutput(queue, win)].out)
    /\ queue' = Without(queue, NextOutput(queue, win))
    /\ win' = win - 1
    /\ UNCHANGED << state, pending, parked, readerVars, printerDone, sinkFailed, ilvVars, sinkBuf, stdout >>

\* The item that the interleave stream yields next, by its position in the
\* stream: the oldest one that has not been taken.
InterleaveHead == ilvSent - ilvReady + 1

\* An item of the interleave stream is taken by forward and handed to the
\* sink; it is written when the sink flushes.
ForwardInterleave ==
    /\ ~printerDone
    /\ ilvReady > 0
    /\ sinkBuf' = Append(sinkBuf, [src |-> "interleave", fid |-> 0,
                                   id |-> InterleaveHead, code |-> 0])
    /\ ilvReady' = ilvReady - 1
    /\ UNCHANGED << state, pending, queue, win, parked, readerVars, printerDone, sinkFailed,
                    ilvSent, ilvClosed, stdout >>

\* The sink flushes: the oldest message of its buffer is written to stdout.
\* Forward flushes the sink when select has nothing ready and when it closes
\* the sink at the end of select, and the sink flushes by itself before it
\* takes a message once its buffer has passed its limit; the writer may take
\* the buffer a part at a time.  The sizes of the messages are not modelled:
\* a message of the buffer may be written at any point while the printer
\* runs, the others staying in the buffer.
SinkFlush ==
    /\ ~printerDone
    /\ sinkBuf # << >>
    /\ stdout' = Append(stdout, Head(sinkBuf))
    /\ sinkBuf' = Tail(sinkBuf)
    /\ UNCHANGED << state, pending, queue, win, parked, readerVars, printerDone,
                    sinkFailed, ilvVars >>

\* Variant of StreamsEnded in which the channel never closes (a sender is kept
\* alive after the reader has returned).
StreamsEndedSenderKept == FALSE /\ readerDone

\* Both streams of select have ended: the channel is closed (the reader has
\* dropped the sender) and drained, and the interleave stream is over.
StreamsEnded == readerDone /\ queue = << >> /\ ilvClosed /\ ilvReady = 0

\* The forward completes: select has ended and the sink, closed by forward,
\* has written all of its buffer; the printer returns.
PrinterFinish ==
    /\ ~printerDone
    /\ StreamsEnded
    /\ sinkBuf = << >>
    /\ printerDone' = TRUE
    /\ UNCHANGED << state, pending, queue, win, parked, readerVars, sinkFailed,
                    ilvVars, sinkBuf, stdout >>

\* The sink returns an error: the encoding of the message it has just been
\* handed fails, or the write or the flush of the writer fails, which the
\* forward runs whenever select has nothing ready and when it closes the sink,
\* also with nothing buffered.  The forward completes with that error, the
\* messages of the buffer are not written and the printer returns. The receiver
\* is dropped with the futures of the channel and of `buffered`, and the
\* interleave stream with the items it holds: the futures are never polled
\* again, the requests of the unresolved ones stay registered as pending, and
\* a sender suspended in its flush is released.
ForwardSinkError ==
    /\ ~printerDone
    /\ printerDone' = TRUE
    /\ sinkFailed' = TRUE
    /\ sinkBuf' = << >>
    /\ queue' = << >>
    /\ win' = 0
    /\ parked' = FALSE
    /\ ilvReady' = 0
    /\ UNCHANGED << state, pending, readerVars, ilvSent, ilvClosed, stdout >>

\* ------------------------------------------------------ interleave stream

\* The interleave stream gets an item ready; it yields at most n of them.
InterleaveSendUpTo(n) ==
    /\ ~printerDone
    /\ ~ilvClosed
    /\ ilvSent < n
    /\ ilvSent' = ilvSent + 1
    /\ ilvReady' = ilvReady + 1
    /\ UNCHANGED << state, pending, queue, win, parked, readerVars, printerDone, sinkFailed,
                    ilvClosed, sinkBuf, stdout >>

InterleaveSend == InterleaveSendUpTo(MaxInterleave)

\* The interleave stream ends.
InterleaveEnd ==
    /\ ~ilvClosed
    /\ ilvClosed' = TRUE
    /\ UNCHANGED << state, pending, queue, win, parked, readerVars, printerDone, sinkFailed,
                    ilvReady, ilvSent, sinkBuf, stdout >>

\* ------------------------------------------------------------------ system

Next ==
    \/ ReaderDecodeError
    \/ ReaderPollReadyError
    \/ \E f \in Frames : ReaderCall(f)
    \/ ReaderEof
    \/ BufferedFill
    \/ \E i \in 1 .. BufferedMax, r \in HandlerResults : PollFuture(i, r)
    \/ ForwardResponse
    \/ DropNone
    \/ ForwardInterleave
    \/ SinkFlush
    \/ PrinterFinish
    \/ ForwardSinkError
    \/ InterleaveSend
    \/ InterleaveEnd

Spec == Init /\ [][Next]_vars

\* The printer task is polled whenever it can make progress, the writer
\* eventually takes what the sink has buffered unless it fails, and a handler
\* that is polled eventually returns or observes its cancellation.  Nothing is
\* assumed of the client (frames, end of input) or of the interleave stream.
PrinterStep ==
    \/ BufferedFill
    \/ ForwardResponse
    \/ DropNone
    \/ ForwardInterleave
    \/ SinkFlush
    \/ PrinterFinish

HandlerStep == \E i \in 1 .. BufferedMax, r \in HandlerResults : PollFuture(i, r)

\* Progress is examined with the frames whose params deserialize; initialize,
\* shutdown and $/cancelRequest carry the first id, a request or an unknown
\* method carries any id, so that a cancellation or a second initialize meets
\* both a request of its id and a request of another id.
FairFrames ==
    {f \in Frames :
        /\ f.valid
        /\ f.method \in {"initialize", "shutdown", "$/cancelRequest"} => f.id = 1}

FairNext ==
    \/ ReaderDecodeError
    \/ ReaderPollReadyError
    \/ \E f \in FairFrames : ReaderCall(f)
    \/ ReaderEof
    \/ BufferedFill
    \/ \E i \in 1 .. BufferedMax, r \in HandlerResults : PollFuture(i, r)
    \/ ForwardResponse
    \/ DropNone
    \/ ForwardInterleave
    \/ SinkFlush
    \/ PrinterFinish
    \/ ForwardSinkError
    \/ InterleaveSend
    \/ InterleaveEnd

FairSpec ==
    Init /\ [][FairNext]_vars /\ WF_vars(PrinterStep) /\ WF_vars(HandlerStep)

\* The merge of the two streams examined with MergeInterleave interleave
\* items: the client sends requests and notifications of unknown methods, which
\* are served in every lifecycle state.
MergeFrames == {f \in Frames : f.method = "other"}

MergeNext ==
    \/ \E f \in MergeFrames : ReaderCall(f)
    \/ ReaderEof
    \/ BufferedFill
    \/ \E i \in 1 .. BufferedMax, r \in HandlerResults : PollFuture(i, r)
    \/ ForwardResponse
    \/ DropNone
    \/ ForwardInterleave
    \/ SinkFlush
    \/ PrinterFinish
    \/ ForwardSinkError
    \/ InterleaveSendUpTo(MergeInterleave)
    \/ InterleaveEnd

MergeSpec ==
    Init /\ [][MergeNext]_vars /\ WF_vars(PrinterStep) /\ WF_vars(HandlerStep)

\* The backpressure of the channel examined with BackpressureFrames frames and
\* a sink that accepts every message:
\* the client sends requests and notifications of unknown methods, and exit,
\* and keeps sending while the reader reads; a handler may wait until its
\* request is cancelled, and returns once it is.
BackpressureInput == {f \in Frames : f.method \in {"other", "exit"}}

BackpressureRead ==
    \/ \E f \in BackpressureInput : ReaderCallUpTo(f, BackpressureFrames)
    \/ ReaderPollReadyErrorUpTo(BackpressureFrames)

CancelledStep ==
    \E i \in 1 .. BufferedMax, r \in HandlerResults :
        PollFuture(i, r) /\ queue[i].aborted

BackpressureNext ==
    \/ BackpressureRead
    \/ ReaderEof
    \/ BufferedFill
    \/ \E i \in 1 .. BufferedMax, r \in HandlerResults : PollFuture(i, r)
    \/ ForwardResponse
    \/ DropNone
    \/ SinkFlush
    \/ PrinterFinish
    \/ InterleaveEnd

BackpressureSpec ==
    /\ Init
    /\ [][BackpressureNext]_vars
    /\ WF_vars(BackpressureRead)
    /\ WF_vars(PrinterStep)
    /\ WF_vars(CancelledStep)

\* The router examined in every lifecycle state: the lifecycle cell holds any
\* of its values at the start, and handle_request is applied to each request
\* in whatever state the cell is in (without the poll_ready of the reader); the
\* future it returns goes through the queue to the printer as in serve.
RouterInit ==
    /\ state \in StateKind
    /\ pending = [i \in Ids |-> 0]
    /\ queue = << >>
    /\ win = 0
    /\ parked = FALSE
    /\ nread = 0
    /\ readerDone = FALSE
    /\ printerDone = FALSE
    /\ sinkFailed = FALSE
    /\ panicked = FALSE
    /\ exitDispatched = (state = "Exited")
    /\ ilvReady = 0
    /\ ilvSent = 0
    /\ ilvClosed = FALSE
    /\ sinkBuf = << >>
    /\ stdout = << >>

HandleRequest(f) ==
    /\ CanRead
    /\ LET arm == Arm(f, state)
           fid == nread + 1
       IN  /\ nread' = fid
           /\ state' = RouteState(arm, state)
           /\ pending' = RoutePending(arm, f, fid, pending)
           /\ exitDispatched' = (exitDispatched \/ arm = "exit")
           /\ Send(MarkAtExit(Abort(queue, RouteAborts(arm, f, pending)), arm),
                   RouteFuture(arm, f, fid))
    /\ UNCHANGED << win, printerDone, sinkFailed, ilvVars, sinkBuf, stdout >>

RouterNext ==
    \/ \E f \in Frames : HandleRequest(f)
    \/ ReaderEof
    \/ BufferedFill
    \/ \E i \in 1 .. BufferedMax, r \in HandlerResults : PollFuture(i, r)
    \/ ForwardResponse
    \/ DropNone
    \/ SinkFlush
    \/ PrinterFinish
    \/ ForwardSinkError
    \/ InterleaveEnd

RouterSpec == RouterInit /\ [][RouterNext]_vars

\* ------------------------------------------------------------- properties

\* A step in which the reader reads a frame and sends a future for it (the
\* channel takes the future: the printer still holds the receiver).
Read == nread' = nread + 1 /\ Len(queue') = Len(queue) + 1

\* The future sent in such a step.
New == queue'[Len(queue')]

\* A step in which a request of method m is dispatched.
Dispatched(m) == Read /\ New.method = m

\* A step in which the i-th future of the queue resolves.
Resolves(i) ==
    /\ Len(queue') = Len(queue)
    /\ queue[i].out = Unresolved
    /\ queue'[i].out # Unresolved

\* A step after which the i-th future of the queue is no longer queued: the
\* printer has taken its output, or the printer has ended on a sink error and
\* dropped it.
Gone(i) == \A j \in DOMAIN queue' : queue'[j].fid # queue[i].fid

\* A step in which the printer takes the output of the i-th future of the
\* queue from `buffered` and the sink takes what is forwarded of it.
Leaves(i) == Gone(i) /\ ~sinkFailed'

\* A step in which the sink fails: the printer ends and drops what is queued.
SinkFails == sinkFailed' /\ ~sinkFailed

\* A step in which the reader reads a frame after the printer has ended on a
\* sink error: the send fails and its unwrap panics the reader.
ReaderPanics == panicked' /\ ~panicked

\* The messages that forward has handed to the sink, oldest first: those the
\* sink has written, then those waiting in its buffer.
Forwarded == stdout \o sinkBuf

\* A step in which forward hands exactly the message msg to the sink.
Forwards(msg) == Forwarded' = Append(Forwarded, msg)

\* A step that changes stdout writes the oldest message of the sink's buffer
\* and takes it out of the buffer.
SinkWritesOldest ==
    stdout' # stdout =>
        /\ sinkBuf # << >>
        /\ stdout' = Append(stdout, Head(sinkBuf))
        /\ sinkBuf' = Tail(sinkBuf)

\* No message that was handed to the sink is lost: a step leaves the messages
\* handed to the sink as they are or adds one at their end.
SinkKeeps ==
    \/ Forwarded' = Forwarded
    \/ /\ Len(Forwarded') = Len(Forwarded) + 1
       /\ SubSeq(Forwarded', 1, Len(Forwarded)) = Forwarded

\* The sink writes what it was handed, in that order, each message once, and
\* loses none unless it fails.
SinkInOrder == SinkWritesOldest /\ (~SinkFails => SinkKeeps)

\* Nothing has been handed to the sink yet for the i-th future of the queue.
Fresh(i) == \A j \in DOMAIN Forwarded : Forwarded[j].fid # queue[i].fid

\* C1: an initialize request with valid params dispatched in Uninitialized sets
\* the state to Initializing at dispatch; when its handler returns Ok the state
\* becomes Initialized and the future yields an ok response with the id of the
\* request, when it returns Err the state is set back to Uninitialized and the
\* future yields an error response with that id; the future leaves the queue
\* only by having that one response handed to the sink, once.
C1_InitializeLifecycle ==
    [][ /\ (Dispatched("initialize") /\ New.valid /\ state = "Uninitialized")
            => /\ state' = "Initializing"
               /\ New.kind = "init"
               /\ New.out = Unresolved
        /\ \A i \in DOMAIN queue :
            (queue[i].method = "initialize" /\ queue[i].kind = "init") =>
                /\ Resolves(i) =>
                    \/ /\ queue'[i].out = Response(queue[i].id, 0)
                       /\ state' = "Initialized"
                    \/ /\ queue'[i].out.tag = "resp"
                       /\ queue'[i].out.id = queue[i].id
                       /\ queue'[i].out.code # 0
                       /\ state' = "Uninitialized"
                /\ Leaves(i) =>
                    /\ queue[i].out.tag = "resp"
                    /\ Fresh(i)
                    /\ Forwards([src |-> "init", fid |-> queue[i].fid,
                               id |-> queue[i].id, code |-> queue[i].out.code])
      ]_vars

\* C1 witness: the response of a successful initialize has been written and
\* the server is Initialized.
C1_Witness ==
    /\ state = "Initialized"
    /\ \E j \in DOMAIN stdout : stdout[j].src = "init" /\ stdout[j].code = 0

\* The transitions of the lifecycle state that the dispatcher allows.
AllowedTransitions ==
    {<< "Uninitialized", "Initializing" >>, << "Initializing", "Initialized" >>,
     << "Initializing", "Uninitialized" >>, << "Initialized", "ShutDown" >>}
        \cup {<< s, "Exited" >> : s \in StateKind}

\* C2: every change of the lifecycle state is one of the allowed transitions;
\* in particular no transition leaves Exited.
C2_AllowedTransitions ==
    [][state' # state => << state, state' >> \in AllowedTransitions]_vars

\* A step that dispatches a $/cancelRequest for id k.
CancelDispatched(k) == Dispatched("$/cancelRequest") /\ New.id = k

\* The i-th future of the queue is a request with id k in flight through the
\* pending registry.
InFlight(i, k) ==
    /\ queue[i].kind = "exec"
    /\ queue[i].id = k
    /\ queue[i].out = Unresolved

\* What is handed to the sink for a cancelled request: once a future of the
\* pending registry has been cancelled it resolves to the request-cancelled
\* error and that error is the message handed to the sink for it.
CancelledMeansError ==
    \A i \in DOMAIN queue :
        (queue[i].kind = "exec" /\ queue[i].aborted) =>
            /\ Resolves(i) => queue'[i].out = Response(queue[i].id, RequestCancelled)
            /\ Leaves(i) =>
                Forwards([src |-> "exec", fid |-> queue[i].fid,
                        id |-> queue[i].id, code |-> RequestCancelled])

\* C3 as stated: a $/cancelRequest that arrives while a request with the same id
\* is in flight cancels it, whatever the lifecycle state is, so that the
\* response handed to the sink for it is the request-cancelled error.
C3_CancelInAnyState ==
    [][ /\ \A k \in Ids : \A i \in DOMAIN queue :
            (CancelDispatched(k) /\ InFlight(i, k)) => queue'[i].aborted
        /\ CancelledMeansError
      ]_vars

\* C3 amended: a $/cancelRequest dispatched while the state is Initialized and
\* while a request with the same id is in flight cancels it, so that the
\* response handed to the sink for it is the request-cancelled error (-32800)
\* and not the result of the handler.
C3_CancelWhileInitialized ==
    [][ /\ \A k \in Ids : \A i \in DOMAIN queue :
            (CancelDispatched(k) /\ InFlight(i, k) /\ state = "Initialized")
                => queue'[i].aborted
        /\ CancelledMeansError
      ]_vars

\* C3 witness: after initialize, a request was cancelled by a $/cancelRequest
\* with its id and has resolved to the request-cancelled error.
C3_Witness ==
    /\ state = "Initialized"
    /\ Len(queue) = 2
    /\ queue[1].method = "request"
    /\ queue[1].out = Response(queue[1].id, RequestCancelled)
    /\ queue[2].method = "$/cancelRequest"
    /\ queue[2].id = queue[1].id

\* C4 as stated: responses are handed to the sink in the order in which the
\* handlers complete: when a response is handed to the sink, no response that
\* completed before it (of a future that resolved while this one was still
\* unresolved) is still waiting to be handed to the sink.
C4_WrittenInCompletionOrder ==
    [][ \A i \in DOMAIN queue :
            (Leaves(i) /\ queue[i].out.tag = "resp") =>
                ~ \E j \in DOMAIN queue :
                    queue[j].out.tag = "resp" /\ queue[i].fid \in queue[j].overtook
      ]_vars

\* C4 amended: responses are written in the order in which the requests were
\* read: a response whose handler completed while an earlier request was still
\* unresolved is not handed to the sink before that earlier request has left
\* the queue, and the sink writes what it is handed in that order.
C4_WrittenInArrivalOrder ==
    [][ /\ \A j \in DOMAIN queue :
            Leaves(j) => \A i \in DOMAIN queue : queue[i].fid \notin queue[j].overtook
        /\ SinkInOrder
      ]_vars

\* C4 witness: the response of A has been written while the response of B,
\* which completed before A's, is still waiting.
C4_Witness ==
    \E j \in DOMAIN queue : \E a \in DOMAIN stdout :
        /\ queue[j].out.tag = "resp"
        /\ stdout[a].fid \in queue[j].overtook
        /\ stdout[a].src = "exec"
        /\ queue[j].kind = "exec"

\* The i-th future of the queue, of a request executed through the pending
\* registry, has resolved to a response and that response is handed to the sink
\* in this step, the first message handed to the sink for the request.
ExecResponseWritten(i) ==
    /\ queue[i].out.tag = "resp"
    /\ Fresh(i)
    /\ Forwards([src |-> "exec", fid |-> queue[i].fid,
               id |-> queue[i].id, code |-> queue[i].out.code])

\* The responses of the handlers that were handed to the sink stay handed to
\* it: none is lost before it is written.
ExecResponsesKept ==
    \A a \in DOMAIN Forwarded :
        Forwarded[a].src = "exec" =>
            a \in DOMAIN Forwarded' /\ Forwarded'[a] = Forwarded[a]

\* No response of a handler waits in the queue or in the buffer of the sink.
ExecResponsesOut ==
    /\ \A i \in DOMAIN queue : queue[i].kind # "exec"
    /\ \A a \in DOMAIN sinkBuf : sinkBuf[a].src # "exec"

\* C5: unless an exit has been dispatched, a request dispatched through
\* pending.execute gets exactly one response with its id: it is registered only
\* with its future queued; its future is gone from the queue only by having one
\* response with that id handed to the sink, nothing was handed to the sink for
\* it before; the sink writes what it is handed and loses no response; and
\* under fair scheduling of the reader and the printer every such future does
\* leave the queue and its response the buffer of the sink.
C5_ExactlyOneResponse ==
    /\ [][ ~exitDispatched' =>
               /\ \A i \in DOMAIN queue :
                    (queue[i].kind = "exec" /\ Gone(i)) => ExecResponseWritten(i)
               /\ ReaderPanics => pending' = pending
               /\ SinkWritesOldest
               /\ ExecResponsesKept
         ]_vars
    /\ []<>(exitDispatched \/ ExecResponsesOut)

\* C6: dispatching an exit sets the state to Exited, empties the pending
\* registry and cancels every request in flight through it, so that each
\* resolves to the request-cancelled error; the exit itself yields no message.
C6_ExitCancelsAll ==
    [][ /\ Dispatched("exit") =>
            /\ state' = "Exited"
            /\ pending' = [k \in Ids |-> 0]
            /\ New.out = NoOutput
            /\ \A i \in DOMAIN queue :
                (queue[i].kind = "exec" /\ queue[i].out = Unresolved) => queue'[i].aborted
        /\ \A i \in DOMAIN queue :
            (queue[i].kind = "exec" /\ queue[i].atExit /\ Resolves(i))
                => queue'[i].out = Response(queue[i].id, RequestCancelled)
        /\ \A i \in DOMAIN queue :
            (queue[i].method = "exit" /\ Leaves(i)) => Forwarded' = Forwarded
      ]_vars

\* C6 witness: two requests were in flight at an exit and both have resolved
\* to the request-cancelled error.
C6_Witness ==
    /\ state = "Exited"
    /\ \E i, j \in DOMAIN queue :
        /\ i # j
        /\ queue[i].kind = "exec" /\ queue[i].atExit
        /\ queue[j].kind = "exec" /\ queue[j].atExit
        /\ queue[i].out = Response(queue[i].id, RequestCancelled)
        /\ queue[j].out = Response(queue[j].id, RequestCancelled)

\* C7 as stated: nothing is handed to the sink for a request whose handler was
\* pending when an exit was dispatched.
C7_NothingWrittenAfterExit ==
    [][ \A i \in DOMAIN queue : (queue[i].atExit /\ Leaves(i)) => Forwarded' = Forwarded ]_vars

\* C7 amended: for a request that was in flight through the pending registry
\* when an exit was dispatched, the only message handed to the sink is its
\* request-cancelled error, never the result of its handler.
C7_OnlyCancellationsAfterExit ==
    [][ \A i \in DOMAIN queue :
            (queue[i].kind = "exec" /\ queue[i].atExit /\ Leaves(i)) =>
                Forwards([src |-> "exec", fid |-> queue[i].fid,
                        id |-> queue[i].id, code |-> RequestCancelled])
      ]_vars

\* C7 witness: two requests and then an exit were read, and the
\* request-cancelled errors of both requests have been written.
C7_Witness ==
    /\ state = "Exited"
    /\ nread = 3
    /\ Len(stdout) = 2
    /\ stdout[1].src = "exec" /\ stdout[1].code = RequestCancelled
    /\ stdout[2].src = "exec" /\ stdout[2].code = RequestCancelled
    /\ stdout[1].id # stdout[2].id

\* Every future of the queue has resolved.
AllResolved == \A i \in DOMAIN queue : queue[i].out # Unresolved

C9_CancelIsSilent ==
    [][ /\ \A k \in Ids :
            CancelDispatched(k) =>
                /\ New.out = NoOutput
                /\ state' = state
                /\ pending[k] = 0 =>
                    /\ pending' = pending
                    /\ queue' = Append(queue, New)
        /\ \A i \in DOMAIN queue :
            (queue[i].method = "$/cancelRequest" /\ Leaves(i)) => Forwarded' = Forwarded
      ]_vars

\* C9 witness: a request completed with the result of its handler, and a
\* $/cancelRequest for its id was dispatched afterwards.
C9_Witness ==
    /\ state = "Initialized"
    /\ \E a \in DOMAIN stdout : \E i \in DOMAIN queue :
        /\ stdout[a].src = "exec"
        /\ stdout[a].code = 0
        /\ queue[i].method = "$/cancelRequest"
        /\ queue[i].id = stdout[a].id
        /\ queue[i].fid > stdout[a].fid

\* C10: a known request other than initialize dispatched in Uninitialized gets a
\* ready server-not-initialized error (-32002) with its id, no handler, no
\* registration, no state change; that one error is what is handed to the sink
\* for it.
C10_NotInitialized ==
    [][ /\ (Read /\ New.method \in {"shutdown", "request"} /\ state = "Uninitialized") =>
            /\ New.kind = "ready"
            /\ New.out = Response(New.id, ServerNotInitialized)
            /\ pending' = pending
            /\ state' = "Uninitialized"
            /\ queue' = Append(queue, New)
        /\ \A i \in DOMAIN queue :
            (queue[i].out.code = ServerNotInitialized /\ Leaves(i)) =>
                /\ Fresh(i)
                /\ Forwards([src |-> "ready", fid |-> queue[i].fid,
                           id |-> queue[i].id, code |-> ServerNotInitialized])
      ]_vars

\* C10 witness: the server-not-initialized error of a request has been written
\* and the server is still Uninitialized.
C10_Witness ==
    /\ state = "Uninitialized"
    /\ \E a \in DOMAIN stdout :
        stdout[a].code = ServerNotInitialized /\ stdout[a].id \in Ids

\* The i-th future of the queue was made for a frame that failed to decode.
DecodeFailure(i) == queue[i].method = ""

\* A step in which the reader reads a frame that fails to decode and has
\* sent what it sends for it: the service is not called (the lifecycle state
\* and the pending registry are unchanged), and either the future of a frame
\* that failed to decode is queued or the send has failed.
DecodeFails ==
    /\ nread' = nread + 1
    /\ state' = state
    /\ pending' = pending
    /\ \/ Read /\ New.method = ""
       \/ ReaderPanics

\* C11: a frame that fails to decode does not end the reader and yields a ready
\* response with the null id and code -32700, without calling the service: the
\* lifecycle state, the pending registry and the futures in flight are
\* unchanged; that response is handed to the sink exactly once (the printer
\* takes its future from the queue only by having it handed to the sink, and
\* under fair scheduling the future does leave the queue).
C11_DecodeFailure ==
    /\ [][ /\ DecodeFails =>
                /\ ~readerDone'
                /\ Read
                /\ New.kind = "ready"
                /\ New.out = Response(0, ParseError)
                /\ queue' = Append(queue, New)
           /\ \A i \in DOMAIN queue :
               (DecodeFailure(i) /\ Leaves(i)) =>
                   /\ Fresh(i)
                   /\ Forwards([src |-> "ready", fid |-> queue[i].fid,
                              id |-> 0, code |-> ParseError])
          ]_vars
    /\ []<>(\A i \in DOMAIN queue : ~DecodeFailure(i))

\* The i-th future of the queue is an initialize handler that has not returned.
Initializing(i) == queue[i].kind = "init" /\ queue[i].out = Unresolved

\* C12: initialize is serialized against the other requests.  The state becomes
\* Initialized only in the step in which an initialize handler returns Ok, it
\* is not Initialized while an initialize handler has not returned, and a known
\* method other than initialize gets a handler, or touches the pending
\* registry (exit aside, which empties it), only when it is dispatched in
\* Initialized; so nothing of the kind happens between the dispatch of an
\* initialize and the successful completion of its handler.
C12_InitializeSerialized ==
    [][ /\ (state' = "Initialized" /\ state # "Initialized") =>
                \E i \in DOMAIN queue :
                    Initializing(i) /\ queue'[i].out = Response(queue[i].id, 0)
        /\ \A i \in DOMAIN queue : Initializing(i) => state # "Initialized"
        /\ (Read /\ New.method \notin {"other", "initialize", "exit", ""}) =>
                \/ state = "Initialized"
                \/ /\ New.kind = "ready"
                   /\ pending' = pending
                   /\ queue' = Append(queue, New)
        /\ (Read /\ \E i \in DOMAIN queue : Initializing(i)) =>
                \/ New.method = "other"
                \/ New.kind = "ready" /\ (pending' = pending \/ New.method = "exit")
      ]_vars

\* C12 witness: while the initialize handler has not returned, a request and a
\* notification were dispatched; the request was rejected and the notification
\* dropped, without a handler.
C12_Witness ==
    /\ Len(queue) = 3
    /\ queue[1].kind = "init" /\ queue[1].out = Unresolved
    /\ queue[2].method = "request" /\ queue[2].valid
    /\ queue[2].kind = "ready" /\ queue[2].out = Response(queue[2].id, InvalidRequest)
    /\ queue[3].method = "notification" /\ queue[3].valid
    /\ queue[3].kind = "ready" /\ queue[3].out = NoOutput

\* The i-th future of the queue has resolved, and if it resolved to a message
\* that message is handed to the sink in this step, the first handed to the sink
\* for it.
OutputWritten(i) ==
    /\ queue[i].out # Unresolved
    /\ queue[i].out.tag = "resp" =>
        /\ Fresh(i)
        /\ Forwards([src |-> queue[i].kind, fid |-> queue[i].fid,
                   id |-> queue[i].out.id, code |-> queue[i].out.code])

\* C13: the printer drains the queue before serve returns: the printer returns
\* only with the queue drained and the buffer of the sink written; a queued
\* future that has resolved to a message is gone from the queue only by having
\* that message handed to the sink, once; and the sink writes what it is
\* handed and loses none of it.
C13_WriterDrains ==
    [][ /\ (printerDone' /\ ~printerDone) => (queue = << >> /\ sinkBuf = << >>)
        /\ \A i \in DOMAIN queue :
            (queue[i].out.tag = "resp" /\ Gone(i)) => OutputWritten(i)
        /\ SinkWritesOldest
        /\ SinkKeeps
      ]_vars

\* The positions, among the messages handed to the sink, of the items of the
\* interleave stream, and those of the responses.
FromInterleave == {a \in DOMAIN Forwarded : Forwarded[a].src = "interleave"}
FromResponses == DOMAIN Forwarded \ FromInterleave

\* Every item that the interleave stream no longer holds has been handed to the
\* sink, once.
InterleaveWritten ==
    /\ Cardinality(FromInterleave) = ilvSent - ilvReady
    /\ \A k \in 1 .. ilvSent - ilvReady :
            \E a \in FromInterleave : Forwarded[a].id = k

\* What is handed to the sink of each stream is in that stream's order, and a
\* response that has been handed to the sink is no longer queued.
MergeOrdered ==
    /\ \A a, b \in FromInterleave : a < b => Forwarded[a].id < Forwarded[b].id
    /\ \A a, b \in FromResponses : a < b => Forwarded[a].fid < Forwarded[b].fid
    /\ \A a \in FromResponses : \A i \in DOMAIN queue :
            Forwarded[a].fid # queue[i].fid

\* Neither stream holds an item that is ready for the printer, and the sink
\* has written all it was handed.
MergeIdle ==
    /\ ilvReady = 0
    /\ queue = << >> \/ queue[1].out = Unresolved
    /\ sinkBuf = << >>

\* C14: the printer merges the two streams so that every item is written
\* exactly once and each stream's items are written in that stream's order:
\* the items taken from the interleave stream are handed to the sink, each once
\* and in stream order; a future with a message is gone from the queue only by
\* having that message handed to the sink once, the responses are handed in
\* queue order; the sink writes what it is handed, in order, and loses
\* nothing; and under fair scheduling of the printer neither stream keeps an
\* item that is ready, nor the sink a message, forever.
C14_Merge ==
    /\ [](InterleaveWritten /\ MergeOrdered)
    /\ [][ /\ \A i \in DOMAIN queue : Gone(i) => OutputWritten(i)
           /\ SinkWritesOldest
           /\ SinkKeeps
          ]_vars
    /\ []<>MergeIdle

\* A step in which the reader returns on a frame without sending anything and
\* without calling the service.
ReaderReturns ==
    /\ readerDone'
    /\ panicked' = panicked
    /\ queue' = queue
    /\ pending' = pending
    /\ state' = state

\* Once the reader has returned no frame is read and no future is sent.
ReaderStaysDone ==
    readerDone =>
        /\ readerDone'
        /\ nread' = nread
        /\ \A j \in DOMAIN queue' : \E i \in DOMAIN queue : queue[i].fid = queue'[j].fid

\* An exit has been dispatched, as far as the state shows it.
ExitSeen == state = "Exited" \/ \E i \in DOMAIN queue : queue[i].method = "exit"

\* C15 as stated: after an exit every frame is ignored: the first frame read
\* after it makes the reader return, nothing is sent for it and no later frame
\* is read.
C15_FramesIgnoredAfterExit ==
    [][ /\ (nread' = nread + 1 /\ ExitSeen) => ReaderReturns
        /\ ReaderStaysDone
      ]_vars

\* C15 amended: a frame that decodes while poll_ready fails (the state is
\* Exited) makes the reader return: the frame is not passed to the service,
\* nothing is sent for it and no later frame is read; a frame that fails to
\* decode in that state does not reach poll_ready: the parse-error response
\* is sent for it and the reader goes on, or, the printer having ended on a
\* sink error, the send of that response panics the reader.
C15_PollReadyErrorEndsReader ==
    [][ /\ (nread' = nread + 1 /\ state = "Exited") =>
                \/ ReaderReturns
                \/ /\ Read /\ New.method = "" /\ New.out = Response(0, ParseError)
                   /\ queue' = Append(queue, New)
                   /\ pending' = pending
                   /\ state' = state
                   /\ ~readerDone'
                \/ /\ ReaderPanics
                   /\ sinkFailed
                   /\ pending' = pending
                   /\ state' = state
        /\ ReaderStaysDone
      ]_vars

\* C15 witness: an exit, a frame that failed to decode and a third frame were
\* read; the parse-error response is queued behind the exit, nothing was sent
\* for the third frame and the reader has returned.
C15_Witness ==
    /\ readerDone
    /\ state = "Exited"
    /\ nread = 3
    /\ Len(queue) = 2
    /\ queue[1].method = "exit" /\ queue[1].fid = 1
    /\ queue[2].method = "" /\ queue[2].fid = 2

\* C16: when the reader returns, by end of input or on a poll_ready error, the
\* requests in flight through the pending registry are cancelled, and each of
\* them resolves to the request-cancelled error instead of the result of its
\* handler.
C16_ReaderEndCancels ==
    [][ /\ (readerDone' /\ ~readerDone) =>
                \A i \in DOMAIN queue : InFlight(i, queue[i].id) => queue'[i].aborted
        /\ \A i \in DOMAIN queue :
                (readerDone /\ InFlight(i, queue[i].id) /\ Resolves(i)) =>
                    queue'[i].out = Response(queue[i].id, RequestCancelled)
      ]_vars

\* C17: the transport loop does not deadlock: the reader never stays blocked
\* in its send into the full channel, and every frame of the input is
\* eventually read (the reader reads them all or returns), also when the
\* handlers in progress wait for a cancellation that a frame not yet read
\* would bring.
C17_DeadlockFree ==
    /\ (parked ~> ~parked)
    /\ <>(readerDone \/ nread = BackpressureFrames)

\* While the reader is suspended in its send it reads no frame and does not
\* return; a future is gone from the queue only from its head and resolved,
\* and the other futures stay queued in their order.
SuspendedAndKept ==
    /\ parked => (nread' = nread /\ readerDone' = readerDone)
    /\ \A i \in DOMAIN queue : Gone(i) => (i = 1 /\ queue[1].out # Unresolved)
    /\ \A i \in DOMAIN queue : \A j \in DOMAIN queue :
            (i < j /\ ~Gone(i) /\ ~Gone(j)) =>
                \E k, l \in DOMAIN queue' :
                    k < l /\ queue'[k].fid = queue[i].fid /\ queue'[l].fid = queue[j].fid

\* C18: the printer awaits at most BufferedMax futures, the channel never holds
\* more futures than its buffer, the reader is suspended while the channel is
\* full and reads no frame, and no queued future is lost or dropped: a future
\* leaves the queue only at its head, resolved, and the others keep their
\* order.
C18_BoundsAsStated ==
    /\ [](/\ win <= BufferedMax
          /\ ChannelLen(queue, win) <= ChannelBuffer)
    /\ [][SuspendedAndKept]_vars

\* A step that dispatches a known request (a method with an id).
RequestDispatched == Read /\ New.method \in {"initialize", "shutdown", "request"}

\* The request of a step that dispatches one is rejected with the error code:
\* a ready response with its id, no handler, no registration, no state change.
RejectedWith(code) ==
    /\ New.kind = "ready"
    /\ New.out = Response(New.id, code)
    /\ state' = state
    /\ pending' = pending
    /\ queue' = Append(queue, New)

\* What C19 says of a shutdown and of the requests dispatched after it: a
\* shutdown dispatched in Initialized sets ShutDown at dispatch, before its
\* handler returns, and is registered in the pending registry; its future
\* leaves the queue by having one response with its id handed to the sink.  A
\* known request dispatched in ShutDown, a second shutdown too, is rejected with
\* invalid_request (-32600) and its id, without a handler.  A request that was
\* not cancelled resolves to the result of its own handler.
ShutDownServed ==
    /\ (Dispatched("shutdown") /\ state = "Initialized") =>
            /\ state' = "ShutDown"
            /\ New.kind = "exec"
            /\ New.out = Unresolved
            /\ pending'[New.id] = New.fid
    /\ (RequestDispatched /\ state = "ShutDown") => RejectedWith(InvalidRequest)
    /\ \A i \in DOMAIN queue :
        (queue[i].method = "shutdown" /\ Leaves(i)) =>
            /\ queue[i].out.tag = "resp"
            /\ Fresh(i)
            /\ Forwards([src |-> queue[i].kind, fid |-> queue[i].fid,
                       id |-> queue[i].id, code |-> queue[i].out.code])
    /\ \A i \in DOMAIN queue :
        (queue[i].kind = "exec" /\ ~queue[i].aborted /\ Resolves(i)) =>
            /\ queue'[i].out.tag = "resp"
            /\ queue'[i].out.id = queue[i].id
            /\ queue'[i].out.code \in HandlerResults

\* C19 as stated: a shutdown dispatched in Initialized is served as above, and
\* it leaves every request in flight untouched, so that each completes with
\* the response of its own handler.
C19_ShutDownKeepsInFlight ==
    [][ /\ ShutDownServed
        /\ (Dispatched("shutdown") /\ state = "Initialized") =>
                \A i \in DOMAIN queue :
                    InFlight(i, queue[i].id) => queue'[i] = queue[i]
      ]_vars

\* C19 amended: a shutdown dispatched in Initialized is served as above; it
\* leaves the requests in flight under other ids untouched, so that each
\* completes with the response of its own handler, and it cancels the request
\* in flight under its own id, if there is one, which its registration
\* replaces.
C19_ShutDown ==
    [][ /\ ShutDownServed
        /\ (Dispatched("shutdown") /\ state = "Initialized") =>
                \A i \in DOMAIN queue :
                    InFlight(i, queue[i].id) =>
                        queue'[i] = IF queue[i].id = New.id
                                    THEN [queue[i] EXCEPT !.aborted = TRUE]
                                    ELSE queue[i]
      ]_vars

\* C19 witness: after initialize, a shutdown was executed and its handler has
\* returned Ok, and a second shutdown was rejected with invalid_request.
C19_Witness ==
    /\ state = "ShutDown"
    /\ Len(queue) = 2
    /\ queue[1].method = "shutdown" /\ queue[1].kind = "exec"
    /\ queue[1].out = Response(queue[1].id, 0)
    /\ queue[2].method = "shutdown" /\ queue[2].kind = "ready"
    /\ queue[2].out = Response(queue[2].id, InvalidRequest)

\* C20: a known request dispatched in Initializing, a duplicate initialize as
\* well as any other request, is rejected with invalid_request (-32600) and its
\* id, without a handler, and the state stays Initializing: the state leaves
\* Initializing only when the initialize handler returns (or when an exit is
\* read, which sets Exited); the error is what is handed to the sink for the
\* request.
C20_RejectedWhileInitializing ==
    [][ /\ (RequestDispatched /\ state = "Initializing") => RejectedWith(InvalidRequest)
        /\ (state = "Initializing" /\ state' # state) =>
                \/ \E i \in DOMAIN queue : Initializing(i) /\ Resolves(i)
                \/ nread' = nread + 1 /\ state' = "Exited"
        /\ \A i \in DOMAIN queue :
            (queue[i].out.code = InvalidRequest /\ Leaves(i)) =>
                /\ Fresh(i)
                /\ Forwards([src |-> "ready", fid |-> queue[i].fid,
                           id |-> queue[i].id, code |-> InvalidRequest])
      ]_vars

\* C20 witness: while the initialize handler has not returned, a second
\* initialize and a request were rejected with invalid_request, and the state
\* is still Initializing.
C20_Witness ==
    /\ state = "Initializing"
    /\ Len(queue) = 3
    /\ queue[1].kind = "init" /\ queue[1].out = Unresolved
    /\ queue[2].method = "initialize"
    /\ queue[2].out = Response(queue[2].id, InvalidRequest)
    /\ queue[3].method = "request"
    /\ queue[3].out = Response(queue[3].id, InvalidRequest)

\* The i-th future of the queue was made for a request of an unknown method.
Unknown(i) == queue[i].method = "other"

\* C21: in every lifecycle state a request of an unknown method with an id is
\* executed through the pending registry: it is registered, never rejected with
\* server_not_initialized or invalid_request, it leaves the state alone at
\* dispatch and when its handler returns, it resolves to a response with its id
\* (the result of request_else, or the cancellation) and that one response is
\* handed to the sink for it; an unknown method without an id yields no message,
\* touches neither the state nor the registry, and nothing is handed to the sink
\* for it.
C21_UnknownMethod ==
    [][ /\ (Dispatched("other") /\ New.id # 0) =>
                /\ New.kind = "exec"
                /\ New.out = Unresolved
                /\ pending'[New.id] = New.fid
                /\ state' = state
        /\ (Dispatched("other") /\ New.id = 0) =>
                /\ New.kind = "ready"
                /\ New.out = NoOutput
                /\ state' = state
                /\ pending' = pending
                /\ queue' = Append(queue, New)
        /\ \A i \in DOMAIN queue :
            (Unknown(i) /\ Resolves(i)) =>
                /\ queue'[i].out.tag = "resp"
                /\ queue'[i].out.id = queue[i].id
                /\ queue'[i].out.code \in HandlerResults \cup {RequestCancelled}
                /\ state' = state
        /\ \A i \in DOMAIN queue :
            (Unknown(i) /\ Leaves(i)) =>
                IF queue[i].id # 0
                THEN /\ Fresh(i)
                     /\ Forwards([src |-> "exec", fid |-> queue[i].fid,
                                id |-> queue[i].id, code |-> queue[i].out.code])
                ELSE Forwarded' = Forwarded
      ]_vars

\* C21 witness: the server has exited; the one request dispatched since, of an
\* unknown method, was executed and the result of its handler has been
\* written, and the state is still Exited.
C21_Witness ==
    /\ state = "Exited"
    /\ nread = 1
    /\ queue = << >>
    /\ Len(stdout) = 1
    /\ stdout[1].src = "exec" /\ stdout[1].fid = 1
    /\ stdout[1].id \in Ids /\ stdout[1].code = 0

\* C22: the outputs taken from the queue are written in the order in which the
\* reader sent the futures: the queue keeps that order, a future leaves the
\* queue only when no future sent before it is still queued, whichever resolved
\* first, so the messages of the queue are handed to the sink in the order of
\* their frames, and the sink writes what it is handed in that order; a ready
\* parse-error response waits behind the requests read before it.
C22_QueueOrder ==
    /\ [](/\ \A i, j \in DOMAIN queue : i < j => queue[i].fid < queue[j].fid
          /\ \A a \in FromResponses : \A i \in DOMAIN queue :
                Forwarded[a].fid < queue[i].fid
          /\ \A a, b \in FromResponses : a < b => Forwarded[a].fid < Forwarded[b].fid)
    /\ [][ /\ \A i \in DOMAIN queue :
                Leaves(i) => \A j \in DOMAIN queue : queue[i].fid <= queue[j].fid
           /\ SinkInOrder
          ]_vars

\* C22 witness: request A, request B and a frame that failed to decode were
\* read; B resolved while A was unresolved; the response of A has been written
\* first, and B and the ready parse-error response behind it are still queued.
C22_Witness ==
    /\ Len(queue) = 2
    /\ queue[1].kind = "exec" /\ queue[1].fid = 2
    /\ queue[1].out.tag = "resp" /\ 1 \in queue[1].overtook
    /\ queue[2].fid = 3 /\ queue[2].out = Response(0, ParseError)
    /\ \E a \in DOMAIN stdout : stdout[a].src = "exec" /\ stdout[a].fid = 1

====
